---- MODULE Spec2Model ----
(***************************************************************************)
(* Model of the rewriter extension: configuration resolution               *)
(* (getRewriterConfig), prompt assembly (generateRewrite), model catalog   *)
(* (listAvailableModels), model selection (updateModelConfig) and the two  *)
(* command flows rewriter.selectModel and rewriter.rewrite.                *)
(*                                                                         *)
(* Encoding of JavaScript values.  A string is a sequence of tokens, the   *)
(* empty string is <<>>.  The tokens are chosen so that the text "models/" *)
(* occurs in a string only as the token "models/", and a decimal digit     *)
(* only as a one-character token; concatenation is \o.  A value of type    *)
(* T | undefined is Undefined (<<>>) or Def(v) (<<v>>).  An object with    *)
(* string keys is the sequence of its <<key, value>> pairs in insertion    *)
(* order, keys distinct.                                                   *)
(***************************************************************************)
EXTENDS Integers, Sequences, FiniteSets, TLC

VARIABLES
  sessionModelName,  \* module variable of the binding, string | undefined
  persisted,         \* the "rewriter" section of the configuration store
  secret,            \* context.secrets entry "rewriter.apiKey"
  document,          \* text of the active editor's selection
  rw,                \* the rewriter.rewrite invocation
  sel,               \* the rewriter.selectModel invocation
  upd,               \* the updateModelConfig activation of each caller
  fn                 \* a direct application of one of the pure functions

vars == <<sessionModelName, persisted, secret, document, rw, sel, upd, fn>>

----------------------------------------------------------------------------
(* Bounds *)

MaxExamples == 2   \* entries of an examples object
MaxCatalog == 2    \* entries of a catalog response (pure-function check)
MaxNameLen == 2    \* tokens of a catalog entry name (pure-function check)

----------------------------------------------------------------------------
(* JavaScript values *)

Undefined == <<>>
Def(v) == <<v>>
EmptyString == <<>>

\* truthiness of a value of type string | undefined
Truthy(v) == v # Undefined /\ v[1] # EmptyString

\* a || b on values of type string | undefined
JsOr(a, b) == IF Truthy(a) THEN a ELSE b

\* a || b where a is an object or undefined (every object is truthy)
ObjOr(a, b) == IF a # Undefined THEN a ELSE b

Includes(seq, x) == \E i \in DOMAIN seq : seq[i] = x

\* String.prototype.indexOf, 1-based, 0 when pat does not occur
IndexOf(s, pat) ==
  LET hits == {i \in 1..(Len(s) - Len(pat) + 1) :
                  SubSeq(s, i, i + Len(pat) - 1) = pat}
  IN IF hits = {} THEN 0 ELSE CHOOSE i \in hits : \A j \in hits : i <= j

\* String.prototype.replace with a string pattern: the first occurrence only
StringReplace(s, pat, rep) ==
  LET i == IndexOf(s, pat)
  IN IF i = 0 THEN s
     ELSE SubSeq(s, 1, i - 1) \o rep \o SubSeq(s, i + Len(pat), Len(s))

Digits == {"0", "1", "2", "3", "4", "5", "6", "7", "8", "9"}

DigitVal(t) ==
  CASE t = "0" -> 0 [] t = "1" -> 1 [] t = "2" -> 2 [] t = "3" -> 3
    [] t = "4" -> 4 [] t = "5" -> 5 [] t = "6" -> 6 [] t = "7" -> 7
    [] t = "8" -> 8 [] t = "9" -> 9

\* a property key that is a canonical array index ("0", "7", "12", not "01")
IsArrayIndex(k) ==
  /\ Len(k) > 0
  /\ \A i \in DOMAIN k : k[i] \in Digits
  /\ Len(k) > 1 => k[1] # "0"

RECURSIVE NumValue(_)
NumValue(k) ==
  IF k = <<>> THEN 0
  ELSE 10 * NumValue(SubSeq(k, 1, Len(k) - 1)) + DigitVal(k[Len(k)])

RECURSIVE AscendingIndex(_)
AscendingIndex(S) ==
  IF S = {} THEN <<>>
  ELSE LET m == CHOOSE e \in S : \A f \in S : NumValue(e[1]) <= NumValue(f[1])
       IN <<m>> \o AscendingIndex(S \ {m})

IsIndexEntry(e) == IsArrayIndex(e[1])
IsNamedEntry(e) == ~IsArrayIndex(e[1])

\* Object.entries: own property order is the array-index keys in ascending
\* numeric order, then the other string keys in insertion order
ObjectEntries(obj) ==
  AscendingIndex({obj[i] : i \in {j \in DOMAIN obj : IsIndexEntry(obj[j])}})
    \o SelectSeq(obj, IsNamedEntry)

----------------------------------------------------------------------------
(* Program constants *)

DEFAULT_MODEL_NAME == <<"gemini-2.0-flash">>
DeprecatedModel == <<"gemini-pro">>
ModelsPrefix == <<"models/">>
GenerateContent == "generateContent"

----------------------------------------------------------------------------
(* binding: getRewriterConfig *)

\* modelName with the persisted setting ahead of the session state
getRewriterConfig_PersistedFirst(apiKey) ==
  [apiKey |-> apiKey,
   modelName |-> JsOr(persisted.model,
                      JsOr(sessionModelName, Def(DEFAULT_MODEL_NAME)))[1],
   prompt |-> JsOr(persisted.prompt, Def(EmptyString))[1],
   debug |-> TRUE,
   examples |-> ObjOr(persisted.examples, Def(<<>>))[1]]

\* the retired identifier as the default
getRewriterConfig_OldDefault(apiKey) ==
  [apiKey |-> apiKey,
   modelName |-> JsOr(sessionModelName,
                      JsOr(persisted.model, Def(DeprecatedModel)))[1],
   prompt |-> JsOr(persisted.prompt, Def(EmptyString))[1],
   debug |-> TRUE,
   examples |-> ObjOr(persisted.examples, Def(<<>>))[1]]

getRewriterConfig(apiKey) ==
  [apiKey |-> apiKey,
   modelName |-> JsOr(sessionModelName,
                      JsOr(persisted.model, Def(DEFAULT_MODEL_NAME)))[1],
   prompt |-> JsOr(persisted.prompt, Def(EmptyString))[1],
   debug |-> TRUE,
   examples |-> ObjOr(persisted.examples, Def(<<>>))[1]]

----------------------------------------------------------------------------
(* binding: generateRewrite, the request payload *)

\* the per-invocation prompt ignored
PromptText_ConfigOnly(config, context) == Def(config.prompt)

\* const promptText = context.selectionPrompt || config.prompt
PromptText(config, context) ==
  JsOr(context.selectionPrompt, Def(config.prompt))

\* if (promptText) parts.push(`instruction: ${promptText}`)
InstructionParts(promptText) ==
  IF Truthy(promptText) THEN << <<"instruction: ">> \o promptText[1] >>
  ELSE <<>>

\* the loop body: push `input: ${input}`, then `output: ${output}`
RECURSIVE ExampleParts(_)
ExampleParts(entries) ==
  IF entries = <<>> THEN <<>>
  ELSE << <<"input: ">> \o entries[1][1], <<"output: ">> \o entries[1][2] >>
         \o ExampleParts(Tail(entries))

\* the parts array handed to model.generateContent
BuildParts(config, context) ==
  InstructionParts(PromptText(config, context))
    \o ExampleParts(ObjectEntries(config.examples))
    \o << <<"input: ">> \o context.text, <<"output: ">> >>

----------------------------------------------------------------------------
(* binding: listAvailableModels, the value returned for a response body *)

SupportsGenerateContent(m) ==
  Includes(m.supportedGenerationMethods, GenerateContent)

RECURSIVE MapStripPrefix(_)
MapStripPrefix(models) ==
  IF models = <<>> THEN <<>>
  ELSE <<StringReplace(models[1].name, ModelsPrefix, EmptyString)>>
         \o MapStripPrefix(Tail(models))

\* data.models.filter(...).map(m => m.name.replace("models/", ""))
listAvailableModels(models) ==
  MapStripPrefix(SelectSeq(models, SupportsGenerateContent))

----------------------------------------------------------------------------
(* Values the environment supplies *)

GoodModel == <<"gemini-1.5-pro">>

\* names a caller may pass to updateModelConfig
ModelNames == {EmptyString, DeprecatedModel, DEFAULT_MODEL_NAME, GoodModel}

PersistedModels == {Undefined} \cup {Def(m) : m \in ModelNames \ {DEFAULT_MODEL_NAME}}
PersistedPrompts == {Undefined, Def(EmptyString), Def(<<"formal">>)}
PersistedExamples ==
  {Undefined, Def(<<>>), Def(<< <<<<"hi">>, <<"HI">>>> >>)}
AllSettings ==
  [model : PersistedModels, prompt : PersistedPrompts,
   examples : PersistedExamples]

\* the settings the command flows run against: any model entry, with the
\* prompt and the examples both absent or both present
Settings ==
  {p \in AllSettings :
     \/ p.prompt = Undefined /\ p.examples = Undefined
     \/ p.prompt = Def(<<"formal">>) /\ p.examples # Undefined
                                     /\ p.examples # Def(<<>>)}

Texts == {EmptyString, <<"hello">>}
GeneratedTexts == {<<"HELLO">>, EmptyString}
ArgPrompts == {Undefined, Def(EmptyString), Def(<<"shout">>)}
ApiKey == <<"key">>

\* response bodies of the catalog endpoint
Entry(n, ms) == [name |-> n, supportedGenerationMethods |-> ms]
CatalogBodies ==
  { <<>>,
    << Entry(<<"models/", "embedding-001">>, <<"embedContent">>) >>,
    << Entry(<<"models/", "gemini-pro">>, <<"generateContent", "countTokens">>),
       Entry(<<"models/", "embedding-001">>, <<"embedContent">>),
       Entry(<<"models/", "gemini-1.5-pro">>, <<"generateContent">>) >>,
    << Entry(<<"models/">>, <<"generateContent">>) >> }

Callers == {"command", "other"}

IdleRewrite ==
  [pc |-> "idle", text |-> EmptyString, selectionPrompt |-> Undefined,
   config |-> Undefined, resolves |-> 0, requestModel |-> Undefined,
   parts |-> <<>>, genCalls |-> 0,
   generated |-> Undefined, replaced |-> <<>>,
   outcome |-> "none", message |-> <<>>,
   answer |-> Undefined,  \* the item chosen on the deprecation warning
   selectModelRun |-> FALSE]

IdleSelect ==
  [pc |-> "idle", catalogCalls |-> 0, models |-> <<>>, picked |-> Undefined,
   log |-> "none", outcome |-> "none", message |-> <<>>,
   fetched |-> Undefined,  \* how the catalog request of this run settled
   applied |-> Undefined]  \* the name of the latest updateModelConfig call

IdleUpdate ==
  [pc |-> "idle", modelName |-> EmptyString, writes |-> 0, log |-> "none",
   overwritten |-> FALSE]

IdleFn == [op |-> "none"]

Init ==
  /\ sessionModelName = Undefined
  /\ persisted \in Settings
  /\ secret = Undefined
  /\ document \in Texts
  /\ rw = IdleRewrite
  /\ sel = IdleSelect
  /\ upd = [c \in Callers |-> IdleUpdate]
  /\ fn = IdleFn

----------------------------------------------------------------------------
(* The environment: the user and the configuration store *)

\* rewriter.setApiKey: an empty input box returns without storing
SetApiKey(input) ==
  /\ secret' = IF Truthy(input) THEN input ELSE secret
  /\ UNCHANGED <<sessionModelName, persisted, document, rw, sel, upd, fn>>

\* the user edits settings.json
EditSettings(p) ==
  /\ p # persisted
  /\ persisted' = p
  /\ UNCHANGED <<sessionModelName, secret, document, rw, sel, upd, fn>>

\* the user changes the selection of the active editor
ChangeSelection(t) ==
  /\ t # document
  /\ document' = t
  /\ UNCHANGED <<sessionModelName, persisted, secret, rw, sel, upd, fn>>

----------------------------------------------------------------------------
(* binding: updateModelConfig *)

\* the assignment left to the end of the persisted write
SessionOnCall_Deferred(modelName) == sessionModelName

\* line 104: sessionModelName = modelName
SessionOnCall(modelName) == Def(modelName)

\* line 118 enabled: the session state reset after a successful write
SessionAfterWrite_Reset(current) == Undefined

\* line 118 is commented out: the session state is kept
SessionAfterWrite(current) == current

\* the catch block rethrowing
CatchPersistence_Rethrow(error) == "threw"

\* lines 120-123: the error is logged and the function returns
CatchPersistence(error) == "returned"

Inspections == {"throws", "unregistered", "registered"}

\* the inspection result not checked: the write is attempted regardless
UpdateModelConfigCall_NoKeyCheck(c, modelName, inspection) ==
  /\ upd[c].pc = "idle"
  /\ sessionModelName' = SessionOnCall(modelName)
  /\ upd' = [d \in Callers |->
       IF d = c
       THEN [pc |-> CASE inspection = "throws" -> CatchPersistence("inspect")
                      [] inspection = "unregistered" -> "awaitUpdate"
                      [] inspection = "registered" -> "awaitUpdate",
             modelName |-> modelName,
             writes |-> IF inspection = "throws" THEN 0 ELSE 1,
             log |-> CASE inspection = "throws" -> "inspect failed"
                       [] inspection = "unregistered" -> "key not found"
                       [] inspection = "registered" -> "none",
             overwritten |-> FALSE]
       ELSE IF upd[d].pc = "awaitUpdate"
            THEN [upd[d] EXCEPT !.overwritten = TRUE]
            ELSE upd[d]]

\* lines 104-117, up to the suspension at await config.update(...)
UpdateModelConfigCall(c, modelName, inspection) ==
  /\ upd[c].pc = "idle"
  /\ sessionModelName' = SessionOnCall(modelName)
  /\ upd' = [d \in Callers |->
       IF d = c
       THEN [pc |-> CASE inspection = "throws" -> CatchPersistence("inspect")
                      [] inspection = "unregistered" -> "returned"
                      [] inspection = "registered" -> "awaitUpdate",
             modelName |-> modelName,
             writes |-> IF inspection = "registered" THEN 1 ELSE 0,
             log |-> CASE inspection = "throws" -> "inspect failed"
                       [] inspection = "unregistered" -> "key not found"
                       [] inspection = "registered" -> "none",
             overwritten |-> FALSE]
       ELSE IF upd[d].pc = "awaitUpdate"
            THEN [upd[d] EXCEPT !.overwritten = TRUE]
            ELSE upd[d]]

\* config.update settles: the write is made, or the promise rejects
UpdateSettles(c, written) ==
  /\ upd[c].pc = "awaitUpdate"
  /\ IF written
     THEN /\ persisted' = [persisted EXCEPT !.model = Def(upd[c].modelName)]
          /\ sessionModelName' = SessionAfterWrite(sessionModelName)
          /\ upd' = [upd EXCEPT ![c].pc = "returned"]
     ELSE /\ upd' = [upd EXCEPT ![c].pc = CatchPersistence("update"),
                                ![c].log = "update failed"]
          /\ UNCHANGED <<persisted, sessionModelName>>
  /\ UNCHANGED <<secret, document, rw, sel, fn>>

\* the exported function called by c, and c resuming after its return
ApiCall(c, modelName, inspection) ==
  /\ UpdateModelConfigCall(c, modelName, inspection)
  /\ UNCHANGED <<persisted, secret, document, rw, sel, fn>>

ApiReturn(c) ==
  /\ upd[c].pc \in {"returned", "threw"}
  /\ upd' = [upd EXCEPT ![c] = IdleUpdate]
  /\ UNCHANGED <<sessionModelName, persisted, secret, document, rw, sel, fn>>

----------------------------------------------------------------------------
(* binding: listAvailableModels, the whole call *)

Throw(e) == [threw |-> TRUE, error |-> e]
Return(v) == [threw |-> FALSE, value |-> v]

FetchOutcomes ==
  {[settled |-> "rejected", error |-> <<"fetch failed">>],
   [settled |-> "fulfilled", ok |-> FALSE, statusText |-> <<"Forbidden">>]}
    \cup {[settled |-> "fulfilled", ok |-> TRUE, models |-> b] :
             b \in CatalogBodies}

\* the catch block returning an empty list instead of rethrowing
ListAvailableModelsCall_EmptyOnError(outcome) ==
  IF outcome.settled = "rejected" THEN Return(<<>>)
  ELSE IF ~outcome.ok
       THEN Return(<<>>)
       ELSE Return(listAvailableModels(outcome.models))

\* lines 83-98: the catch block logs and rethrows
ListAvailableModelsCall(outcome) ==
  IF outcome.settled = "rejected" THEN Throw(outcome.error)
  ELSE IF ~outcome.ok
       THEN Throw(<<"Failed to fetch models: ">> \o outcome.statusText)
       ELSE Return(listAvailableModels(outcome.models))

----------------------------------------------------------------------------
(* flow: the rewriter.selectModel command *)

NoApiKeyMessage ==
  <<"Please set the API key first by running 'Rewriter: Set API Key'">>
NoModelsError == <<"No available models found for generateContent.">>

\* line 192: the message of the command's catch block
ListFailureMessage(error) == <<"Failed to list models: ">> \o error

\* line 188
ModelSetMessage(selectedModel) == <<"Rewriter model set to: ">> \o selectedModel

\* the handler returns: its locals are gone, what it showed remains
SelectEnd(outcome, message) ==
  [IdleSelect EXCEPT !.pc = "done", !.catalogCalls = sel.catalogCalls,
                     !.log = sel.log, !.outcome = outcome,
                     !.message = message, !.fetched = sel.fetched,
                     !.applied = sel.applied]

\* the command starts and waits for context.secrets.get
SelectStartRecord ==
  [IdleSelect EXCEPT !.pc = "getKey", !.applied = sel.applied]

SelectStart ==
  /\ sel.pc \in {"idle", "done"}
  /\ sel' = SelectStartRecord
  /\ UNCHANGED <<sessionModelName, persisted, secret, document, rw, upd, fn>>

\* lines 159-174: the key is checked and the catalog request is issued
SelectGotKey ==
  /\ sel.pc = "getKey"
  /\ IF ~Truthy(secret)
     THEN sel' = SelectEnd("MissingCredential", NoApiKeyMessage)
     ELSE sel' = [sel EXCEPT !.pc = "fetch", !.catalogCalls = @ + 1]
  /\ UNCHANGED <<sessionModelName, persisted, secret, document, rw, upd, fn>>

\* the length check left out: the picker is shown for an empty list too
SelectFetchSettles_NoEmptyCheck(outcome) ==
  /\ sel.pc = "fetch"
  /\ LET r == ListAvailableModelsCall(outcome)
     IN IF r.threw
        THEN sel' = [SelectEnd("CatalogFetchError",
                               ListFailureMessage(r.error))
                       EXCEPT !.fetched = Def(outcome)]
        ELSE sel' = [sel EXCEPT !.pc = "pick", !.models = r.value,
                                !.fetched = Def(outcome)]
  /\ UNCHANGED <<sessionModelName, persisted, secret, document, rw, upd, fn>>

\* lines 174-182: the catalog call settles, the picker is shown
SelectFetchSettles(outcome) ==
  /\ sel.pc = "fetch"
  /\ LET r == ListAvailableModelsCall(outcome)
     IN IF r.threw
        THEN sel' = [SelectEnd("CatalogFetchError",
                               ListFailureMessage(r.error))
                       EXCEPT !.fetched = Def(outcome)]
        ELSE IF Len(r.value) = 0
             THEN sel' = [SelectEnd("EmptyCatalog",
                                    ListFailureMessage(NoModelsError))
                            EXCEPT !.fetched = Def(outcome)]
             ELSE sel' = [sel EXCEPT !.pc = "pick", !.models = r.value,
                                     !.fetched = Def(outcome)]
  /\ UNCHANGED <<sessionModelName, persisted, secret, document, rw, upd, fn>>

\* lines 179-187: the picker resolves; a truthy choice is applied
SelectPick(choice, inspection) ==
  /\ sel.pc = "pick"
  /\ IF Truthy(choice)
     THEN /\ UpdateModelConfigCall("command", choice[1], inspection)
          /\ sel' = [sel EXCEPT !.pc = "update", !.picked = choice,
                                !.applied = choice]
     ELSE /\ sel' = SelectEnd("Dismissed", <<>>)
          /\ UNCHANGED <<sessionModelName, upd>>
  /\ UNCHANGED <<persisted, secret, document, rw, fn>>

\* lines 187-193: updateModelConfig has settled
SelectUpdateDone ==
  /\ sel.pc = "update"
  /\ upd["command"].pc \in {"returned", "threw"}
  /\ IF upd["command"].pc = "returned"
     THEN sel' = [SelectEnd("ModelSet", ModelSetMessage(sel.picked[1]))
                    EXCEPT !.log = upd["command"].log]
     ELSE sel' = [SelectEnd("UpdateError",
                            ListFailureMessage(<<"persistence failure">>))
                    EXCEPT !.log = upd["command"].log]
  /\ upd' = [upd EXCEPT !["command"] = IdleUpdate]
  /\ UNCHANGED <<sessionModelName, persisted, secret, document, rw, fn>>

----------------------------------------------------------------------------
(* flow: the rewriter.rewrite command *)

NoEditorMessage == <<"No active editor found">>
NoTextMessage == <<"No text selected">>
NoApiKeyRewriteMessage ==
  <<"Please set the API key first by running the command 'Rewriter: Set API Key'">>
DeprecatedWarning ==
  <<"The default model 'gemini-pro' is deprecated. Please select a valid Gemini model to proceed.">>
SelectModelItem == <<"Select Model">>
WarningAnswers == {Undefined, Def(SelectModelItem)}
GenerationOutcomes ==
  {Throw(<<"quota exceeded">>)} \cup {Return(t) : t \in GeneratedTexts}

\* line 261
RewriteFailureMessage(error) == <<"Rewrite failed: ">> \o error

\* the validation left out
IsDeprecated_Never(modelName) == FALSE

\* line 236: config.modelName === "gemini-pro"
IsDeprecated(modelName) == modelName = DeprecatedModel

\* the selection written back unchanged
ReplacementText_Original(result, text) == text

\* line 256: replaceSelection(editor, result)
ReplacementText(result, text) == result

\* the handler returns, having shown message (if any)
RewriteEnd(outcome, message) ==
  [rw EXCEPT !.pc = "done", !.outcome = outcome, !.message = message]

\* lines 203-223: the editor and the selection are captured
RewriteStart(hasEditor, selectionPrompt) ==
  /\ rw.pc \in {"idle", "done"}
  /\ rw' = IF ~hasEditor
           THEN [IdleRewrite EXCEPT !.pc = "done", !.outcome = "NoEditor",
                                    !.message = NoEditorMessage]
           ELSE IF ~Truthy(Def(document))
                THEN [IdleRewrite EXCEPT !.pc = "done", !.outcome = "NoText",
                                         !.message = NoTextMessage]
                ELSE [IdleRewrite EXCEPT !.pc = "getKey", !.text = document,
                                         !.selectionPrompt = selectionPrompt]
  /\ UNCHANGED <<sessionModelName, persisted, secret, document, sel, upd, fn>>

\* the configuration read and validated before the key is looked at
RewriteGotKey_ConfigFirst ==
  /\ rw.pc = "getKey"
  /\ LET config == getRewriterConfig(IF Truthy(secret) THEN secret[1]
                                                        ELSE EmptyString)
         context == [text |-> rw.text,
                     selectionPrompt |-> rw.selectionPrompt]
     IN IF IsDeprecated(config.modelName)
        THEN rw' = [rw EXCEPT !.pc = "warn", !.config = Def(config),
                              !.resolves = @ + 1,
                              !.outcome = "DeprecatedModelSelected",
                              !.message = DeprecatedWarning]
        ELSE IF ~Truthy(secret)
             THEN rw' = [RewriteEnd("MissingCredential",
                                    NoApiKeyRewriteMessage)
                           EXCEPT !.config = Def(config), !.resolves = @ + 1]
             ELSE rw' = [rw EXCEPT !.pc = "gen", !.config = Def(config),
                                   !.resolves = @ + 1,
                                   !.requestModel = Def(config.modelName),
                                   !.parts = BuildParts(config, context),
                                   !.genCalls = @ + 1]
  /\ UNCHANGED <<sessionModelName, persisted, secret, document, sel, upd, fn>>

\* lines 223-252 and 52-70: key check, configuration, validation, payload,
\* up to the suspension at await model.generateContent(parts)
RewriteGotKey ==
  /\ rw.pc = "getKey"
  /\ IF ~Truthy(secret)
     THEN rw' = RewriteEnd("MissingCredential", NoApiKeyRewriteMessage)
     ELSE LET config == getRewriterConfig(secret[1])
              context == [text |-> rw.text,
                          selectionPrompt |-> rw.selectionPrompt]
          IN IF IsDeprecated(config.modelName)
             THEN rw' = [rw EXCEPT !.pc = "warn", !.config = Def(config),
                                   !.resolves = @ + 1,
                                   !.outcome = "DeprecatedModelSelected",
                                   !.message = DeprecatedWarning]
             ELSE rw' = [rw EXCEPT !.pc = "gen", !.config = Def(config),
                                   !.resolves = @ + 1,
                                   !.requestModel = Def(config.modelName),
                                   !.parts = BuildParts(config, context),
                                   !.genCalls = @ + 1]
  /\ UNCHANGED <<sessionModelName, persisted, secret, document, sel, upd, fn>>

\* the command run whatever the answer to the warning is
RewriteWarnAnswered_Always(selection) ==
  /\ rw.pc = "warn"
  /\ sel.pc \in {"idle", "done"}
  /\ sel' = SelectStartRecord
  /\ rw' = [RewriteEnd(rw.outcome, rw.message)
              EXCEPT !.answer = selection, !.selectModelRun = TRUE]
  /\ UNCHANGED <<sessionModelName, persisted, secret, document, upd, fn>>

\* lines 237-244: the warning is answered; "Select Model" runs the command
RewriteWarnAnswered(selection) ==
  /\ rw.pc = "warn"
  /\ IF selection = Def(SelectModelItem)
     THEN /\ sel.pc \in {"idle", "done"}
          /\ sel' = SelectStartRecord
          /\ rw' = [RewriteEnd(rw.outcome, rw.message)
                      EXCEPT !.answer = selection, !.selectModelRun = TRUE]
     ELSE /\ rw' = [RewriteEnd(rw.outcome, rw.message)
                      EXCEPT !.answer = selection]
          /\ UNCHANGED sel
  /\ UNCHANGED <<sessionModelName, persisted, secret, document, upd, fn>>

\* replaceSelection moved to a finally block: called on failure too
RewriteGenSettles_Finally(result) ==
  /\ rw.pc = "gen"
  /\ IF result.threw
     THEN rw' = [rw EXCEPT !.pc = "edit", !.outcome = "GenerationError",
                           !.message = RewriteFailureMessage(result.error),
                           !.replaced = Append(@, rw.text)]
     ELSE rw' = [rw EXCEPT !.pc = "edit", !.generated = Def(result.value),
                           !.replaced = Append(@, ReplacementText(result.value,
                                                                  rw.text))]
  /\ UNCHANGED <<sessionModelName, persisted, secret, document, sel, upd, fn>>

\* a failed generation call issued once more before giving up
RewriteGenSettles_Retry(result) ==
  /\ rw.pc = "gen"
  /\ IF result.threw
     THEN IF rw.genCalls < 2
          THEN rw' = [rw EXCEPT !.genCalls = @ + 1]
          ELSE rw' = RewriteEnd("GenerationError",
                                RewriteFailureMessage(result.error))
     ELSE rw' = [rw EXCEPT !.pc = "edit", !.generated = Def(result.value),
                           !.replaced = Append(@, ReplacementText(result.value,
                                                                  rw.text))]
  /\ UNCHANGED <<sessionModelName, persisted, secret, document, sel, upd, fn>>

\* the configuration read again when the generation call settles
RewriteGenSettles_Reresolve(result) ==
  /\ rw.pc = "gen"
  /\ IF result.threw
     THEN rw' = RewriteEnd("GenerationError",
                           RewriteFailureMessage(result.error))
     ELSE rw' = [rw EXCEPT !.pc = "edit", !.generated = Def(result.value),
                           !.config = Def(getRewriterConfig(rw.config[1].apiKey)),
                           !.replaced = Append(@, ReplacementText(result.value,
                                                                  rw.text))]
  /\ UNCHANGED <<sessionModelName, persisted, secret, document, sel, upd, fn>>

\* lines 252-265: the generation call settles; on success replaceSelection
\* is called and the flow waits for editor.edit
RewriteGenSettles(result) ==
  /\ rw.pc = "gen"
  /\ IF result.threw
     THEN rw' = RewriteEnd("GenerationError",
                           RewriteFailureMessage(result.error))
     ELSE rw' = [rw EXCEPT !.pc = "edit", !.generated = Def(result.value),
                           !.replaced = Append(@, ReplacementText(result.value,
                                                                  rw.text))]
  /\ UNCHANGED <<sessionModelName, persisted, secret, document, sel, upd, fn>>

\* the model of a finished rewrite made the override and written to settings
RewriteEditSettles_SavesModel(applied) ==
  /\ rw.pc = "edit"
  /\ document' = IF applied THEN rw.replaced[Len(rw.replaced)] ELSE document
  /\ rw' = RewriteEnd("Succeeded", <<>>)
  /\ sessionModelName' = Def(rw.config[1].modelName)
  /\ persisted' = [persisted EXCEPT !.model = Def(rw.config[1].modelName)]
  /\ UNCHANGED <<secret, sel, upd, fn>>

\* lines 127-131: editor.edit resolves, with the edit applied or not
RewriteEditSettles(applied) ==
  /\ rw.pc = "edit"
  /\ document' = IF applied THEN rw.replaced[Len(rw.replaced)] ELSE document
  /\ rw' = RewriteEnd("Succeeded", <<>>)
  /\ UNCHANGED <<sessionModelName, persisted, secret, sel, upd, fn>>

----------------------------------------------------------------------------
(* The extension *)

PickerChoices == {Undefined} \cup {Def(sel.models[i]) : i \in DOMAIN sel.models}

Next ==
  \/ \E input \in {Undefined, Def(EmptyString), Def(ApiKey)} : SetApiKey(input)
  \/ \E p \in Settings : EditSettings(p)
  \/ \E t \in Texts : ChangeSelection(t)
  \/ UpdateSettles("command", TRUE)
  \/ UpdateSettles("command", FALSE)
  \/ SelectStart
  \/ SelectGotKey
  \/ \E o \in FetchOutcomes : SelectFetchSettles(o)
  \/ \E choice \in PickerChoices, i \in Inspections : SelectPick(choice, i)
  \/ SelectUpdateDone
  \/ \E e \in BOOLEAN, p \in ArgPrompts : RewriteStart(e, p)
  \/ RewriteGotKey
  \/ \E a \in WarningAnswers : RewriteWarnAnswered(a)
  \/ \E r \in GenerationOutcomes : RewriteGenSettles(r)
  \/ \E applied \in BOOLEAN : RewriteEditSettles(applied)

Spec == Init /\ [][Next]_vars

----------------------------------------------------------------------------
(* The binding's exported functions: updateModelConfig under overlapping   *)
(* calls, and getRewriterConfig reading the state they leave               *)

InitApi ==
  /\ sessionModelName = Undefined
  /\ persisted \in Settings
  /\ secret = Def(ApiKey)
  /\ document = <<"hello">>
  /\ rw = IdleRewrite
  /\ sel = IdleSelect
  /\ upd = [c \in Callers |-> IdleUpdate]
  /\ fn = IdleFn

\* getRewriterConfig(apiKey) called; session is the state it read
ApiGetConfig(apiKey) ==
  /\ fn' = [op |-> "getRewriterConfig", session |-> sessionModelName,
            out |-> getRewriterConfig(apiKey)]
  /\ UNCHANGED <<sessionModelName, persisted, secret, document, rw, sel, upd>>

NextApi ==
  \/ \E c \in Callers, m \in ModelNames, i \in Inspections : ApiCall(c, m, i)
  \/ \E c \in Callers : ApiReturn(c)
  \/ \E c \in Callers : UpdateSettles(c, TRUE)
  \/ \E c \in Callers : UpdateSettles(c, FALSE)
  \/ \E p \in Settings : EditSettings(p)
  \/ ApiGetConfig(ApiKey)

SpecApi == InitApi /\ [][NextApi]_vars

----------------------------------------------------------------------------
(* getRewriterConfig over every session state and every settings value *)

InitConfig ==
  /\ sessionModelName \in {Undefined} \cup {Def(m) : m \in ModelNames}
  /\ persisted \in AllSettings
  /\ secret = Def(ApiKey)
  /\ document = <<"hello">>
  /\ rw = IdleRewrite
  /\ sel = IdleSelect
  /\ upd = [c \in Callers |-> IdleUpdate]
  /\ fn = IdleFn

NextConfig == fn = IdleFn /\ ApiGetConfig(ApiKey)

SpecConfig == InitConfig /\ [][NextConfig]_vars

----------------------------------------------------------------------------
(* generateRewrite: the payload for every config and context *)

ExampleKeys == {<<"hi">>, <<"bye">>, <<"2">>, <<"1", "0">>}
ExampleValues == {<<"HI">>, <<"BYE">>}

\* the objects with at most MaxExamples properties, keys distinct
ExampleObjects ==
  UNION {{o \in [1..n -> ExampleKeys \X ExampleValues] :
            \A i, j \in 1..n : i # j => o[i][1] # o[j][1]} : n \in 0..MaxExamples}

PromptConfigs ==
  [apiKey : {ApiKey}, modelName : {DEFAULT_MODEL_NAME},
   prompt : {EmptyString, <<"formal">>}, debug : {TRUE},
   examples : ExampleObjects]

PromptContexts == [text : {<<"hello">>}, selectionPrompt : ArgPrompts]

InitPrompt ==
  /\ sessionModelName = Undefined
  /\ persisted = [model |-> Undefined, prompt |-> Undefined,
                  examples |-> Undefined]
  /\ secret = Def(ApiKey)
  /\ document = <<"hello">>
  /\ rw = IdleRewrite
  /\ sel = IdleSelect
  /\ upd = [c \in Callers |-> IdleUpdate]
  /\ fn \in [op : {"generateRewrite"}, pc : {"called"}, config : PromptConfigs,
              context : PromptContexts, parts : {<<>>}]

\* lines 52-70: the parts are built and handed to model.generateContent
GenerateRewriteIssue ==
  /\ fn.pc = "called"
  /\ fn' = [fn EXCEPT !.pc = "issued",
                      !.parts = BuildParts(fn.config, fn.context)]
  /\ UNCHANGED <<sessionModelName, persisted, secret, document, rw, sel, upd>>

SpecPrompt == InitPrompt /\ [][GenerateRewriteIssue]_vars

----------------------------------------------------------------------------
(* listAvailableModels: the list for every response body *)

NameTokens == {"models/", "publishers/", "foo"}
Methods ==
  {<<"generateContent">>, <<"embedContent">>,
   <<"embedContent", "generateContent">>}

CatalogNames == UNION {[1..n -> NameTokens] : n \in 1..MaxNameLen}
CatalogEntries ==
  [name : CatalogNames, supportedGenerationMethods : Methods]
AllCatalogBodies == UNION {[1..n -> CatalogEntries] : n \in 0..MaxCatalog}

\* every way the catalog request can settle
AllFetchOutcomes ==
  {[settled |-> "rejected", error |-> <<"fetch failed">>]}
    \cup [settled : {"fulfilled"}, ok : {FALSE},
          statusText : {<<"Forbidden">>, <<"Bad Request">>, EmptyString}]
    \cup [settled : {"fulfilled"}, ok : {TRUE}, models : AllCatalogBodies]

InitCatalog ==
  /\ sessionModelName = Undefined
  /\ persisted = [model |-> Undefined, prompt |-> Undefined,
                  examples |-> Undefined]
  /\ secret = Def(ApiKey)
  /\ document = <<"hello">>
  /\ rw = IdleRewrite
  /\ sel = IdleSelect
  /\ upd = [c \in Callers |-> IdleUpdate]
  /\ fn \in [op : {"listAvailableModels"}, pc : {"called"},
              models : AllCatalogBodies, out : {<<>>}]
              \cup [op : {"listAvailableModelsCall"}, pc : {"called"},
                    outcome : AllFetchOutcomes, result : {Undefined}]

\* lines 90-94: the successful response is filtered and mapped
ListAvailableModelsReturn ==
  /\ fn.op = "listAvailableModels"
  /\ fn.pc = "called"
  /\ fn' = [fn EXCEPT !.pc = "returned",
                      !.out = listAvailableModels(fn.models)]
  /\ UNCHANGED <<sessionModelName, persisted, secret, document, rw, sel, upd>>

\* lines 82-99: the whole call settles, by returning or by throwing
ListAvailableModelsSettles ==
  /\ fn.op = "listAvailableModelsCall"
  /\ fn.pc = "called"
  /\ fn' = [fn EXCEPT !.pc = "settled",
                      !.result = Def(ListAvailableModelsCall(fn.outcome))]
  /\ UNCHANGED <<sessionModelName, persisted, secret, document, rw, sel, upd>>

NextCatalog == ListAvailableModelsReturn \/ ListAvailableModelsSettles

SpecCatalog == InitCatalog /\ [][NextCatalog]_vars

----------------------------------------------------------------------------
(* Properties: configuration precedence and model selection *)

Returns(c) == upd[c].pc # "returned" /\ upd'[c].pc = "returned"

\* C2, as stated: on the step on which updateModelConfig(x) returns, the
\* session override equals x, whatever the persistence step did.
C2_OverrideOnReturn ==
  [][\A c \in Callers :
       Returns(c) => sessionModelName' = Def(upd'[c].modelName)]_vars

\* C2, amended: on the step on which updateModelConfig(x) returns, the
\* session override equals x, whatever the persistence step did, unless
\* another updateModelConfig call was made while this call's persisted
\* write was pending (the later call's name is then the override).
C2_OverrideOnReturnUnlessOverwritten ==
  [][\A c \in Callers :
       Returns(c) /\ ~upd'[c].overwritten
         => sessionModelName' = Def(upd'[c].modelName)]_vars

\* a call whose write was rejected has returned with its name as override
C2_Witness ==
  \E c \in Callers :
    /\ upd[c].pc = "returned"
    /\ upd[c].log = "update failed"
    /\ ~upd[c].overwritten
    /\ sessionModelName = Def(upd[c].modelName)
    /\ persisted.model # sessionModelName

\* C3: updateModelConfig never completes by throwing, whatever inspect and
\* update do, and the selectModel command then ends as on success: the
\* confirmation naming the picked model is shown.
C3_PersistenceFailureSwallowed ==
  [][/\ \A c \in Callers : upd'[c].pc # "threw"
     /\ sel.pc = "update" /\ sel'.pc = "done"
          => /\ sel'.outcome = "ModelSet"
             /\ sel'.message = ModelSetMessage(sel.picked[1])]_vars

\* the command has confirmed a model whose persisted write was rejected
C3_Witness ==
  /\ sel.pc = "done"
  /\ sel.outcome = "ModelSet"
  /\ sel.log = "update failed"
  /\ sel.message = ModelSetMessage(sessionModelName[1])

----------------------------------------------------------------------------
(* Properties: the rewrite flow *)

\* C4: whenever the configuration resolved for a rewrite invocation names
\* the deprecated model, the invocation stops at the warning: it reports
\* DeprecatedModelSelected, has issued no generation request and has called
\* no replacement.
C4_DeprecatedHalts ==
  rw.config # Undefined /\ rw.config[1].modelName = DeprecatedModel
    => /\ rw.pc \in {"warn", "done"}
       /\ rw.outcome = "DeprecatedModelSelected"
       /\ rw.message = DeprecatedWarning
       /\ rw.genCalls = 0
       /\ rw.replaced = <<>>

\* credential present, override unset, persisted model deprecated: halted
C4_Witness ==
  /\ rw.pc = "done"
  /\ rw.outcome = "DeprecatedModelSelected"
  /\ rw.config[1].modelName = DeprecatedModel
  /\ Truthy(secret)
  /\ sessionModelName = Undefined
  /\ persisted.model = Def(DeprecatedModel)
  /\ rw.genCalls = 0

FailedOutcomes ==
  {"NoEditor", "NoText", "MissingCredential", "DeprecatedModelSelected",
   "GenerationError"}

\* C5: replaceSelection has been called only in an invocation whose
\* generation call returned a text; a step of an invocation that has failed
\* (missing credential, deprecated model, generation error) calls no
\* replacement and leaves the selection as it is.
C5_ReplaceOnlyAfterGeneration ==
  [][/\ rw'.replaced # <<>>
          => /\ rw'.generated # Undefined
             /\ rw'.genCalls = 1
             /\ rw'.pc \in {"edit", "done"}
     /\ rw' # rw /\ rw'.outcome \in FailedOutcomes
          => /\ rw'.replaced = <<>>
             /\ document' = document]_vars

\* the generation call has failed and nothing was replaced
C5_Witness ==
  /\ rw.pc = "done"
  /\ rw.outcome = "GenerationError"
  /\ rw.genCalls = 1
  /\ rw.replaced = <<>>
  /\ document = rw.text

----------------------------------------------------------------------------
(* Properties: the pure functions *)

\* C7: when getRewriterConfig is called with the session override unset and
\* the persisted 'model' absent or empty, modelName is DEFAULT_MODEL_NAME;
\* with the persisted 'prompt' absent or empty, prompt is the empty string;
\* with the persisted 'examples' absent, examples is the empty mapping.
C7_DefaultsWhenUnset ==
  fn.op = "getRewriterConfig"
    => /\ sessionModelName = Undefined /\ ~Truthy(persisted.model)
            => fn.out.modelName = DEFAULT_MODEL_NAME
       /\ ~Truthy(persisted.prompt) => fn.out.prompt = EmptyString
       /\ persisted.examples = Undefined => fn.out.examples = <<>>

\* nothing is set but an empty 'model': the defaults are returned
C7_Witness ==
  /\ fn.op = "getRewriterConfig"
  /\ sessionModelName = Undefined
  /\ persisted = [model |-> Def(EmptyString), prompt |-> Undefined,
                  examples |-> Undefined]
  /\ fn.out.modelName = DEFAULT_MODEL_NAME
  /\ fn.out.prompt = EmptyString
  /\ fn.out.examples = <<>>

IsInstructionPart(part) == Len(part) > 0 /\ part[1] = "instruction: "

\* 'input: <key>', 'output: <value>' for each property in insertion order
PairsInInsertionOrder(obj) ==
  [i \in 1..(2 * Len(obj)) |->
     IF i % 2 = 1 THEN <<"input: ">> \o obj[(i + 1) \div 2][1]
     ELSE <<"output: ">> \o obj[i \div 2][2]]

\* C8: the payload built by generateRewrite is the optional instruction
\* part, then for each example in insertion order 'input: <key>' followed
\* by 'output: <value>', then 'input: <selected text>', then 'output: ';
\* nothing else, nothing reordered.
C8_PayloadInInsertionOrder ==
  fn.op = "generateRewrite" /\ fn.pc = "issued"
    => LET rest == PairsInInsertionOrder(fn.config.examples)
                     \o << <<"input: ">> \o fn.context.text, <<"output: ">> >>
       IN \/ fn.parts = rest
          \/ /\ Len(fn.parts) = Len(rest) + 1
             /\ IsInstructionPart(fn.parts[1])
             /\ Tail(fn.parts) = rest

\* C9: the instruction is selectionPrompt when that is a non-empty string,
\* else the configured prompt; the payload starts with the part
\* 'instruction: <instruction>' when the instruction is non-empty and has
\* no instruction part when it is empty.
C9_InstructionChoice ==
  fn.op = "generateRewrite" /\ fn.pc = "issued"
    => LET sp == fn.context.selectionPrompt
           chosen == IF sp # Undefined /\ sp[1] # EmptyString
                     THEN sp[1] ELSE fn.config.prompt
       IN /\ chosen # EmptyString
               => fn.parts[1] = <<"instruction: ">> \o chosen
          /\ chosen = EmptyString
               => \A i \in DOMAIN fn.parts : ~IsInstructionPart(fn.parts[i])
          /\ \A i \in DOMAIN fn.parts : i > 1 => ~IsInstructionPart(fn.parts[i])

\* the per-invocation prompt has displaced a configured prompt
C9_Witness ==
  /\ fn.op = "generateRewrite" /\ fn.pc = "issued"
  /\ fn.context.selectionPrompt = Def(<<"shout">>)
  /\ fn.config.prompt = <<"formal">>
  /\ fn.parts[1] = <<"instruction: ", "shout">>

\* a name with its leading 'models/' removed, any other name as it is
StripModelsPrefix(name) ==
  IF Len(name) > 0 /\ name[1] = "models/" THEN Tail(name) ELSE name

RECURSIVE CapableNames(_)
CapableNames(models) ==
  IF models = <<>> THEN <<>>
  ELSE (IF \E i \in DOMAIN models[1].supportedGenerationMethods :
              models[1].supportedGenerationMethods[i] = "generateContent"
        THEN <<StripModelsPrefix(models[1].name)>> ELSE <<>>)
         \o CapableNames(Tail(models))

\* C10: for a successful response listAvailableModels returns, in catalog
\* order, the entries that support 'generateContent', each with its
\* 'models/' prefix stripped and the rest of the name unchanged.
C10_CapableNamesPrefixStripped ==
  fn.op = "listAvailableModels" /\ fn.pc = "returned"
    => fn.out = CapableNames(fn.models)

----------------------------------------------------------------------------
(* Properties: the session override as shared state *)

\* the step on which caller c calls updateModelConfig
Calls(c) == upd[c].pc = "idle" /\ upd'[c].pc # "idle"

\* C11: on no step does a set session override become unset, not on a
\* successful or a failed persisted write, nor in a rewrite; it changes only
\* on the step on which updateModelConfig is called, to the name passed.
C11_OverrideSticky ==
  [][/\ sessionModelName # Undefined => sessionModelName' # Undefined
     /\ sessionModelName' # sessionModelName
          => \E c \in Callers :
               Calls(c) /\ sessionModelName' = Def(upd'[c].modelName)]_vars

\* the persisted write has succeeded and the override is still set
C11_Witness ==
  /\ upd["command"].pc = "returned"
  /\ upd["command"].writes = 1
  /\ upd["command"].log = "none"
  /\ persisted.model = Def(upd["command"].modelName)
  /\ sessionModelName = Def(upd["command"].modelName)

----------------------------------------------------------------------------
(* Properties: the rewrite flow, continued *)

\* C12: an invocation issues at most one generation request, and a failure
\* is final: the step on which the generation call fails ends the
\* invocation, and the record of an ended invocation changes only by a new
\* invocation starting from zero.
C12_OneGenerationCall ==
  [][/\ rw'.genCalls <= 1
     /\ rw.pc = "gen" /\ rw'.pc # "gen" /\ rw'.generated = Undefined
          => rw'.pc = "done" /\ rw'.outcome = "GenerationError"
     /\ rw.pc = "done" /\ rw' # rw
          => rw'.genCalls = 0 /\ rw'.outcome \in {"none", "NoEditor", "NoText"}]_vars

\* the one generation call failed and the invocation ended with the error
C12_Witness ==
  /\ rw.pc = "done"
  /\ rw.outcome = "GenerationError"
  /\ rw.message = RewriteFailureMessage(<<"quota exceeded">>)
  /\ rw.genCalls = 1
  /\ rw.generated = Undefined

----------------------------------------------------------------------------
(* Properties: the catalog call and the selection flow *)

FetchFailed(outcome) == outcome.settled = "rejected" \/ ~outcome.ok

\* C13: when the catalog request is rejected or answered with a non-2xx
\* status, listAvailableModels throws and returns no list; when a
\* successful response has no entry supporting 'generateContent', it
\* returns the empty list and does not throw.
C13_CatalogFailurePropagates ==
  fn.op = "listAvailableModelsCall" /\ fn.pc = "settled"
    => /\ FetchFailed(fn.outcome) => fn.result[1].threw
       /\ ~FetchFailed(fn.outcome)
            => /\ ~fn.result[1].threw
               /\ (\A i \in DOMAIN fn.outcome.models :
                     \A j \in DOMAIN fn.outcome.models[i].supportedGenerationMethods :
                       fn.outcome.models[i].supportedGenerationMethods[j]
                         # "generateContent")
                    => fn.result[1].value = <<>>

\* a 403 answer has made the call throw, with the status in the message
C13_Witness ==
  /\ fn.op = "listAvailableModelsCall" /\ fn.pc = "settled"
  /\ fn.outcome.settled = "fulfilled" /\ ~fn.outcome.ok
  /\ fn.result[1] = Throw(<<"Failed to fetch models: ", "Forbidden">>)

----------------------------------------------------------------------------
(* Properties: a rewrite next to a model selection *)

\* the step on which a rewrite invocation resolves its configuration
Resolves == rw.pc = "getKey" /\ rw'.config # Undefined

\* C14: a rewrite invocation that resolves its configuration after the
\* command has called updateModelConfig(m), with the persisted write of that
\* call pending, failed or done, and before a later call, resolves
\* modelName = m.
C14_SelectionSeenAtOnce ==
  [][Resolves /\ sel.applied # Undefined
       => rw'.config[1].modelName = sel.applied[1]]_vars

\* the write of the picked model is pending, the settings still name another
\* model, and the rewrite has resolved the picked one
C14_Witness ==
  /\ upd["command"].pc = "awaitUpdate"
  /\ rw.pc = "gen"
  /\ rw.config[1].modelName = upd["command"].modelName
  /\ Truthy(persisted.model)
  /\ persisted.model # Def(upd["command"].modelName)
  /\ getRewriterConfig(ApiKey).modelName = rw.config[1].modelName

\* C15: an invocation resolves its configuration once; the model name and
\* the payload of its request are taken from that configuration, and while
\* the generation call is in flight and after it neither the configuration
\* nor the request changes, whatever is selected or edited meanwhile.
C15_ConfigSnapshot ==
  [][/\ rw'.resolves <= 1
     /\ Resolves /\ rw'.pc = "gen"
          => /\ rw'.requestModel = Def(rw'.config[1].modelName)
             /\ rw'.parts = BuildParts(rw'.config[1],
                                       [text |-> rw.text,
                                        selectionPrompt |-> rw.selectionPrompt])
     /\ rw.pc \in {"gen", "edit"} /\ rw'.pc \in {"gen", "edit", "done"}
          => /\ rw'.config = rw.config
             /\ rw'.requestModel = rw.requestModel
             /\ rw'.parts = rw.parts]_vars

\* a model was selected and the prompt edited while the call was in flight;
\* the call has completed with the configuration it started with
C15_Witness ==
  /\ rw.pc = "edit"
  /\ sel.applied # Undefined
  /\ sel.applied # Def(rw.config[1].modelName)
  /\ getRewriterConfig(ApiKey).modelName # rw.config[1].modelName
  /\ getRewriterConfig(ApiKey).prompt # rw.config[1].prompt
  /\ rw.requestModel = Def(rw.config[1].modelName)

\* C16: a call of updateModelConfig(m) that finds the key 'rewriter.model'
\* unregistered returns on the same step without throwing, with the
\* override set to m, no write attempted and the settings as they were; no
\* write of that call is made later.
C16_UnregisteredKeySessionOnly ==
  [][\A c \in Callers :
       /\ Calls(c) /\ upd'[c].log = "key not found"
            => /\ upd'[c].pc = "returned"
               /\ upd'[c].writes = 0
               /\ sessionModelName' = Def(upd'[c].modelName)
               /\ persisted' = persisted
       /\ upd[c].log = "key not found" /\ upd'[c] # upd[c]
            => upd'[c] = IdleUpdate /\ persisted' = persisted]_vars

\* the command has confirmed a model that lives in the session only
C16_Witness ==
  /\ sel.pc = "done"
  /\ sel.outcome = "ModelSet"
  /\ sel.log = "key not found"
  /\ sessionModelName = sel.applied
  /\ persisted.model # sessionModelName

\* a successful response none of whose entries supports 'generateContent'
NothingCapable(outcome) ==
  /\ ~FetchFailed(outcome)
  /\ \A i \in DOMAIN outcome.models :
       \A j \in DOMAIN outcome.models[i].supportedGenerationMethods :
         outcome.models[i].supportedGenerationMethods[j] # "generateContent"

\* C17: when the catalog request of the selectModel command fails, or its
\* response has no capable entry, the command ends on that step with an
\* error message, the picker is not shown, updateModelConfig is not called,
\* and the override and the settings stay as they were; the message for the
\* empty catalog differs from every message for a failed request.
C17_CatalogFailureAborts ==
  [][/\ sel.pc = "fetch" /\ sel'.pc # "fetch"
          => LET failed == FetchFailed(sel'.fetched[1])
                 empty == NothingCapable(sel'.fetched[1])
             IN /\ failed \/ empty
                     => /\ sel'.pc = "done"
                        /\ sel'.message[1] = "Failed to list models: "
                        /\ upd' = upd
                        /\ sel'.applied = sel.applied
                        /\ sessionModelName' = sessionModelName
                        /\ persisted' = persisted
                /\ empty => sel'.message = ListFailureMessage(NoModelsError)
                /\ failed => sel'.message # ListFailureMessage(NoModelsError)
                /\ sel'.pc = "pick" => ~failed /\ ~empty
     /\ Calls("command") => sel.pc = "pick"]_vars

\* every listed model lacks the capability: the command has ended with the
\* empty-catalog message, after a model had been set earlier
C17_Witness ==
  /\ sel.pc = "done"
  /\ sel.outcome = "EmptyCatalog"
  /\ sel.fetched[1].ok /\ sel.fetched[1].models # <<>>
  /\ sel.message = ListFailureMessage(NoModelsError)
  /\ sessionModelName # Undefined
  /\ sessionModelName = sel.applied

\* C18: a rewrite invocation that finds no key ends with MissingCredential
\* on that step, with no configuration resolved, no deprecation warning, no
\* generation call and no replacement; a selectModel invocation that finds
\* no key ends the same way with no catalog request issued, no
\* updateModelConfig call and the override unchanged.
C18_MissingCredentialFirst ==
  [][/\ rw.pc = "getKey" /\ ~Truthy(secret) /\ rw' # rw
          => /\ rw'.pc = "done"
             /\ rw'.outcome = "MissingCredential"
             /\ rw'.message = NoApiKeyRewriteMessage
             /\ rw'.config = Undefined /\ rw'.resolves = 0
             /\ rw'.requestModel = Undefined /\ rw'.parts = <<>>
             /\ rw'.genCalls = 0
             /\ rw'.generated = Undefined /\ rw'.replaced = <<>>
             /\ ~rw'.selectModelRun
             /\ document' = document
     /\ sel.pc = "getKey" /\ ~Truthy(secret) /\ sel' # sel
          => /\ sel'.pc = "done"
             /\ sel'.outcome = "MissingCredential"
             /\ sel'.message = NoApiKeyMessage
             /\ sel'.catalogCalls = 0 /\ sel'.fetched = Undefined
             /\ sel'.models = <<>> /\ sel'.picked = Undefined
             /\ upd' = upd
             /\ sessionModelName' = sessionModelName
     /\ rw'.outcome = "MissingCredential" /\ rw' # rw
          => rw.pc = "getKey" /\ ~Truthy(secret)
     /\ sel'.outcome = "MissingCredential" /\ sel' # sel
          => sel.pc = "getKey" /\ ~Truthy(secret)]_vars

\* both commands have ended for want of a key, while the settings name the
\* deprecated model, which a validation would have rejected
C18_Witness ==
  /\ rw.pc = "done" /\ rw.outcome = "MissingCredential"
  /\ sel.pc = "done" /\ sel.outcome = "MissingCredential"
  /\ ~Truthy(secret)
  /\ persisted.model = Def(DeprecatedModel)

\* C19 as stated: every rewrite invocation that ended rejected for the
\* deprecated model has run the selectModel command.
C19_RejectionRunsSelection ==
  rw.pc = "done" /\ rw.outcome = "DeprecatedModelSelected"
    => rw.selectModelRun

\* C19: a rewrite invocation rejected for the deprecated model shows the
\* warning that offers "Select Model" and starts nothing by itself; when the
\* warning is answered the invocation ends rejected, and the selectModel
\* command is run on that step if and only if the answer is "Select Model".
C19_SelectionOffered ==
  [][/\ rw.pc # "warn" /\ rw'.pc = "warn"
          => /\ rw'.outcome = "DeprecatedModelSelected"
             /\ rw'.message = DeprecatedWarning
             /\ ~rw'.selectModelRun
             /\ sel' = sel
     /\ rw.pc = "warn" /\ rw'.pc # "warn"
          => /\ rw'.pc = "done"
             /\ rw'.outcome = "DeprecatedModelSelected"
             /\ rw'.selectModelRun <=> rw'.answer = Def(SelectModelItem)
             /\ rw'.selectModelRun => sel'.pc = "getKey"
             /\ ~rw'.selectModelRun => sel' = sel
     /\ rw'.selectModelRun /\ rw' # rw => rw.pc = "warn"]_vars

\* the warning was dismissed: the invocation ended rejected and the
\* selectModel command has never run
C19_Witness ==
  /\ rw.pc = "done" /\ rw.outcome = "DeprecatedModelSelected"
  /\ rw.answer = Undefined
  /\ ~rw.selectModelRun
  /\ sel.pc = "idle"

\* the step on which the config.update of caller c's call is made
Writes(c) ==
  /\ upd[c].pc = "awaitUpdate" /\ upd'[c].pc = "returned"
  /\ upd[c].writes = 1
  /\ persisted' = [persisted EXCEPT !.model = Def(upd[c].modelName)]

\* C20: the session override changes only on the step on which
\* updateModelConfig is called; the settings change only on the step on
\* which a call's one config.update is made (its 'model' key, to the name
\* passed) or by the user editing them, a step on which no command moves;
\* every step of the rewrite command, and the key check and the catalog
\* request of the selectModel command, leave both as they were.
C20_WrittenOnlyByUpdateModelConfig ==
  [][/\ sessionModelName' # sessionModelName => \E c \in Callers : Calls(c)
     /\ persisted' # persisted
          => \/ \E c \in Callers : Writes(c)
             \/ /\ rw' = rw /\ sel' = sel /\ upd' = upd /\ fn' = fn
                /\ sessionModelName' = sessionModelName
     /\ \A c \in Callers : Calls(c) => persisted' = persisted
     /\ rw' # rw
          => sessionModelName' = sessionModelName /\ persisted' = persisted
     /\ sel.pc \in {"getKey", "fetch"} /\ sel' # sel
          => sessionModelName' = sessionModelName /\ persisted' = persisted
    ]_vars

\* a rewrite has resolved a configuration, generated and replaced, after a
\* catalog was listed and a model set, and the override and the settings
\* are what updateModelConfig left
C20_Witness ==
  /\ rw.pc = "done" /\ rw.outcome = "Succeeded"
  /\ sel.pc = "done" /\ sel.outcome = "ModelSet"
  /\ sessionModelName = sel.applied
  /\ persisted.model = sel.applied
  /\ rw.requestModel = sel.applied

====
